---- MODULE Spec2Model ----
(***************************************************************************)
(* Model of tobybell/c-vector: the growable pointer vector of vector.c and *)
(* the command shell of cli.c that drives it.                              *)
(*                                                                         *)
(* A block of the heap is a function from slot numbers 0..n-1 to handles;  *)
(* a slot is the size of one pointer.  The record of a vector holds the    *)
(* three members of struct vector.  Assertions are compiled in (no NDEBUG),*)
(* the target is LP64: int is 32 bits, long and size_t are 64 bits.        *)
(*                                                                         *)
(* vector_create asks malloc for the size of the handle type, a pointer,   *)
(* not of struct vector; the members are taken to be stored intact in the  *)
(* block malloc hands out.  A store through a null or too short block is a *)
(* fault that ends the process.                                            *)
(***************************************************************************)
EXTENDS Integers, Sequences, FiniteSets, TLC

\* ---------------------------------------------------------------- bounds
MaxSize == 3          \* the client stops inserting at this many elements
NumValues == 2        \* number of distinct handles the client stores
MaxLines == 2         \* terminated lines of standard input before its last one

\* ------------------------------------------------------- program constants
SizeofPtr == 8        \* sizeof (void *)
SizeofInt == 4        \* sizeof (int)
MAX_LINE == 80        \* #define MAX_LINE 80

Alphabet == <<"a", "b", "c", "d", "e", "f">>

\* The handles a client stores: one-character strings, as the shell makes.
Values == { <<Alphabet[k]>> : k \in 1..NumValues }

\* Content of a slot that was allocated and never written.
Uninit == <<"?">>

\* The null pointer.  Every live block has at least one slot.
NULL == <<>>

\* ------------------------------------------------------------ C arithmetic
\* (size_t) n for an int n: n when n >= 0, n + 2^64 otherwise.  The value is
\* kept as the pair wrap*2^64 + low.
ToSizeT(n) == [wrap |-> IF n < 0 THEN 1 ELSE 0, low |-> n]

\* a < b on two size_t values.
SizeTLess(a, b) ==
  \/ a.wrap < b.wrap
  \/ a.wrap = b.wrap /\ a.low < b.low

\* ------------------------------------------------------------------- heap
\* malloc(bytes): a fresh block of indeterminate content, or NULL.
Malloc(bytes, ok) ==
  IF ok THEN [k \in 0..((bytes \div SizeofPtr) - 1) |-> Uninit] ELSE NULL

\* A realloc that hands out a new block without copying the old content.
ReallocFresh(block, bytes, ok) ==
  IF ok THEN [k \in 0..((bytes \div SizeofPtr) - 1) |-> Uninit] ELSE NULL

\* realloc(block, bytes): a block of the new length that keeps the old content
\* up to the smaller of the two lengths, or NULL.
Realloc(block, bytes, ok) ==
  IF ok
  THEN [k \in 0..((bytes \div SizeofPtr) - 1) |->
          IF k \in DOMAIN block THEN block[k] ELSE Uninit]
  ELSE NULL

\* Slot k of block can be read or written.
Mapped(block, k) == block # NULL /\ k \in DOMAIN block

\* A copy that runs slot by slot from the lowest address, as memcpy may: not
\* safe when the destination overlaps the source from above.
MemCpyForward(block, dst, src, bytes) ==
  LET n == bytes \div SizeofPtr
      RECURSIVE Copy(_, _)
      Copy(b, k) ==
        IF k = n THEN b ELSE Copy([b EXCEPT ![dst + k] = b[src + k]], k + 1)
  IN  IF n = 0 THEN [st |-> "ok", block |-> block]
      ELSE IF n < 0 \/ ~Mapped(block, src) \/ ~Mapped(block, src + n - 1)
              \/ ~Mapped(block, dst) \/ ~Mapped(block, dst + n - 1)
      THEN [st |-> "segv", block |-> block]
      ELSE [st |-> "ok", block |-> Copy(block, 0)]

\* memmove(block + dst, block + src, bytes): an overlap-safe copy of
\* bytes / sizeof (void *) slots.  A copy of no bytes touches nothing; a copy
\* that leaves the block faults.
MemMove(block, dst, src, bytes) ==
  LET n == bytes \div SizeofPtr
  IN  IF n = 0 THEN [st |-> "ok", block |-> block]
      ELSE IF n < 0 \/ ~Mapped(block, src) \/ ~Mapped(block, src + n - 1)
              \/ ~Mapped(block, dst) \/ ~Mapped(block, dst + n - 1)
      THEN [st |-> "segv", block |-> block]
      ELSE [st |-> "ok",
            block |-> [k \in DOMAIN block |->
                         IF dst <= k /\ k < dst + n
                         THEN block[k - dst + src] ELSE block[k]]]

\* ----------------------------------------------------------------- vector
\* get_element: the assertion, and the slot &v->elems[i].
get_element(vec, i) ==
  [ok |-> SizeTLess(ToSizeT(i), ToSizeT(vec.size)), slot |-> i]

\* An extension that reallocates and forgets to double the capacity member.
extend_keep_capacity(vec, ok) ==
  IF vec.size > vec.capacity
  THEN [vec EXCEPT !.elems = Realloc(vec.elems, (vec.capacity * 2) * SizeofPtr, ok)]
  ELSE vec

\* An extension that adds one slot instead of doubling.
extend_by_one(vec, ok) ==
  IF vec.size > vec.capacity
  THEN [vec EXCEPT !.capacity = vec.capacity + 1,
                   !.elems = Realloc(vec.elems, (vec.capacity + 1) * SizeofPtr, ok)]
  ELSE vec

\* extend_if_necessary: doubles capacity and reallocates; the result of
\* realloc is stored unchecked.
extend_if_necessary(vec, ok) ==
  IF vec.size > vec.capacity
  THEN [vec EXCEPT !.capacity = vec.capacity * 2,
                   !.elems = Realloc(vec.elems, (vec.capacity * 2) * SizeofPtr, ok)]
  ELSE vec

\* struct vector: the members, each with its offset and width in bytes.
StructVector ==
  { [member |-> "elems", offset |-> 0, width |-> SizeofPtr],
    [member |-> "capacity", offset |-> SizeofPtr, width |-> SizeofInt],
    [member |-> "size", offset |-> SizeofPtr + SizeofInt, width |-> SizeofInt] }

\* sizeof (vector): vector is the pointer type struct vector *.
SizeofVector == SizeofPtr

\* vector_create: two allocations, each asserted.  record is the number of
\* bytes asked of malloc for the record.
vector_create(okv, oke) ==
  IF ~okv THEN [st |-> "abort", vec |-> NULL]
  ELSE IF ~oke THEN [st |-> "abort", vec |-> NULL]
  ELSE [st |-> "ok",
        vec |-> [elems |-> Malloc(SizeofPtr, oke), capacity |-> 1, size |-> 0,
                 record |-> SizeofVector]]

vector_size(vec) == vec.size

\* A bounds test that compares as signed int, without the conversion.
vector_in_bounds_signed(vec, i) == i < vec.size

\* vector_in_bounds: i < (size_t) v->size, i converted to size_t.
vector_in_bounds(vec, i) == SizeTLess(ToSizeT(i), ToSizeT(vec.size))

\* A set that stores the value in slot i and in every slot above it.
vector_set_upward(vec, i, value) ==
  LET t == get_element(vec, i)
  IN  IF ~t.ok THEN [st |-> "abort", vec |-> vec]
      ELSE IF ~Mapped(vec.elems, t.slot) THEN [st |-> "segv", vec |-> vec]
      ELSE [st |-> "ok",
            vec |-> [vec EXCEPT !.elems = [k \in DOMAIN vec.elems |->
                       IF k >= t.slot THEN value ELSE vec.elems[k]]]]

\* vector_set: *get_element(v, i) = value.
vector_set(vec, i, value) ==
  LET t == get_element(vec, i)
  IN  IF ~t.ok THEN [st |-> "abort", vec |-> vec]
      ELSE IF ~Mapped(vec.elems, t.slot) THEN [st |-> "segv", vec |-> vec]
      ELSE [st |-> "ok", vec |-> [vec EXCEPT !.elems[t.slot] = value]]

\* vector_get: return *get_element(v, i).
vector_get(vec, i) ==
  LET t == get_element(vec, i)
  IN  IF ~t.ok THEN [st |-> "abort", ret |-> Uninit]
      ELSE IF ~Mapped(vec.elems, t.slot) THEN [st |-> "segv", ret |-> Uninit]
      ELSE [st |-> "ok", ret |-> vec.elems[t.slot]]

\* An insert that stores the value without moving the elements above it.
vector_insert_noshift(vec, i, value, ok) ==
  LET v1 == [vec EXCEPT !.size = vec.size + 1]
      v2 == extend_if_necessary(v1, ok)
      t == get_element(v2, i)
  IN  IF ~t.ok THEN [st |-> "abort", vec |-> v2]
      ELSE IF ~Mapped(v2.elems, t.slot) THEN [st |-> "segv", vec |-> v2]
      ELSE [st |-> "ok", vec |-> [v2 EXCEPT !.elems[t.slot] = value]]

\* vector_insert: size grows first, then the block if needed; the elements
\* from i on move up by one slot and the value is stored at i.
vector_insert(vec, i, value, ok) ==
  LET v1 == [vec EXCEPT !.size = vec.size + 1]
      v2 == extend_if_necessary(v1, ok)
      t == get_element(v2, i)
      remaining == v2.size - i - 1
      m == MemMove(v2.elems, t.slot + 1, t.slot, remaining * SizeofPtr)
  IN  IF ~t.ok THEN [st |-> "abort", vec |-> v2]
      ELSE IF m.st # "ok" THEN [st |-> "segv", vec |-> v2]
      ELSE IF ~Mapped(m.block, t.slot) THEN [st |-> "segv", vec |-> v2]
      ELSE [st |-> "ok",
            vec |-> [v2 EXCEPT !.elems = [m.block EXCEPT ![t.slot] = value]]]

\* A remove that reads the value to return after the elements have moved.
vector_remove_late(vec, i) ==
  LET t == get_element(vec, i)
      remaining == vec.size - i - 1
      m == MemMove(vec.elems, t.slot, t.slot + 1, remaining * SizeofPtr)
  IN  IF ~t.ok THEN [st |-> "abort", vec |-> vec, ret |-> Uninit]
      ELSE IF ~Mapped(vec.elems, t.slot)
      THEN [st |-> "segv", vec |-> vec, ret |-> Uninit]
      ELSE IF m.st # "ok" THEN [st |-> "segv", vec |-> vec, ret |-> Uninit]
      ELSE [st |-> "ok",
            vec |-> [vec EXCEPT !.elems = m.block, !.size = vec.size - 1],
            ret |-> m.block[t.slot]]

\* vector_remove: the value at i is saved, the elements above i move down by
\* one slot, size shrinks.
vector_remove(vec, i) ==
  LET t == get_element(vec, i)
      remaining == vec.size - i - 1
      m == MemMove(vec.elems, t.slot, t.slot + 1, remaining * SizeofPtr)
  IN  IF ~t.ok THEN [st |-> "abort", vec |-> vec, ret |-> Uninit]
      ELSE IF ~Mapped(vec.elems, t.slot)
      THEN [st |-> "segv", vec |-> vec, ret |-> Uninit]
      ELSE IF m.st # "ok" THEN [st |-> "segv", vec |-> vec, ret |-> Uninit]
      ELSE [st |-> "ok",
            vec |-> [vec EXCEPT !.elems = m.block, !.size = vec.size - 1],
            ret |-> vec.elems[t.slot]]

\* A push that inserts before the last element.
vector_push_before_last(vec, value, ok) ==
  vector_insert(vec, IF vec.size > 0 THEN vec.size - 1 ELSE 0, value, ok)

\* vector_push: insert at index size.
vector_push(vec, value, ok) == vector_insert(vec, vec.size, value, ok)

\* vector_pop: remove at index size - 1.
vector_pop(vec) == vector_remove(vec, vec.size - 1)

\* vector_destroy: frees the block and the record; the handle is gone.
vector_destroy(vec) == NULL

\* ------------------------------------------------------------------ state
VARIABLES
  v,            \* the vector the client holds (cli.c: static vector v), or NULL
  status,       \* "running", "aborted" (assert), "crashed" (fault), "exited"
  allocFailed,  \* history: some malloc or realloc has returned NULL
  hist,         \* history: the last two calls made by the client of vector.h
  pushed,       \* history: the values pushed since vector_create, if nothing else wrote
  line,         \* shell: the tokens of the command line last run
  before,       \* shell: the vector as it was when that command started
  out,          \* shell: what the last command printed
  calls,        \* shell: the vector.h calls the last command made
  heap,         \* shell: the vector records allocated and not yet freed
  input,        \* main: everything standard input will deliver, in order
  pos,          \* main: how many characters of input getchar has delivered
  eof,          \* main: the end-of-file indicator of stdin (feof)
  pc,           \* main: where control is: "top", "fill", "get", "test", "run", "done"
  dest,         \* main: char command[MAX_LINE + 1]
  idx,          \* main: i of the for loop of read_cmd
  ch,           \* main: ch of read_cmd
  trace         \* history: the prompts and errors of read_cmd, the lines given to run_cmd

shell == <<line, before, out, calls, heap>>

reader == <<input, pos, eof, pc, dest, idx, ch, trace>>

vars == <<v, status, allocFailed, hist, pushed, line, before, out, calls, heap,
          input, pos, eof, pc, dest, idx, ch, trace>>

StatusOf(st) ==
  CASE st = "ok" -> "running"
    [] st = "abort" -> "aborted"
    [] st = "exit" -> "exited"
    [] OTHER -> "crashed"

\* One call of the interface of vector.h, as the history keeps it.
Call(op, i, value, pre, st, ret) ==
  [op |-> op, i |-> i, value |-> value, pre |-> pre, st |-> st, ret |-> ret]

Remember(c) == IF hist = <<>> THEN <<c>> ELSE <<hist[Len(hist)], c>>

NoLog == [clean |-> FALSE, log |-> <<>>]

Start ==
  /\ v = NULL
  /\ status = "running"
  /\ allocFailed = FALSE
  /\ hist = <<>>
  /\ pushed = NoLog
  /\ line = <<>>
  /\ before = NULL
  /\ out = <<>>
  /\ calls = <<>>
  /\ heap = [vectors |-> 0]
  /\ pos = 0
  /\ eof = FALSE
  /\ pc = "top"
  /\ dest = [k \in 1..(MAX_LINE + 1) |-> "?"]
  /\ idx = 0
  /\ ch = "?"
  /\ trace = <<>>

\* The client of vector.h and the command-by-command shell read no input.
Init == Start /\ input = <<>>

\* The integers the client asks vector_in_bounds about.
ProbeInts == (-2..(MaxSize + 1)) \cup {-2147483647 - 1, 2147483647}

\* ------------------------------------------------- a client of vector.h
\* Each action is one call; the client keeps the documented preconditions.
Create ==
  /\ status = "running" /\ v = NULL
  /\ \E okv \in BOOLEAN : \E oke \in {b \in BOOLEAN : okv \/ b} :
       LET r == vector_create(okv, oke)
       IN  /\ v' = r.vec
           /\ status' = StatusOf(r.st)
           /\ allocFailed' = (allocFailed \/ ~okv \/ ~oke)
           /\ hist' = Remember(Call("create", 0, Uninit, NULL, r.st, Uninit))
           /\ pushed' = [clean |-> TRUE, log |-> <<>>]
  /\ UNCHANGED <<shell, reader>>

Destroy ==
  /\ status = "running" /\ v # NULL
  /\ v' = vector_destroy(v)
  /\ hist' = Remember(Call("destroy", 0, Uninit, v, "ok", Uninit))
  /\ pushed' = NoLog
  /\ UNCHANGED <<status, allocFailed, shell, reader>>

Size ==
  /\ status = "running" /\ v # NULL
  /\ hist' = Remember(Call("size", 0, Uninit, v, "ok", vector_size(v)))
  /\ UNCHANGED <<v, status, allocFailed, pushed, shell, reader>>

InBounds ==
  /\ status = "running" /\ v # NULL
  /\ \E i \in ProbeInts :
       hist' = Remember(Call("in_bounds", i, Uninit, v, "ok", vector_in_bounds(v, i)))
  /\ UNCHANGED <<v, status, allocFailed, pushed, shell, reader>>

Get ==
  /\ status = "running" /\ v # NULL
  /\ \E i \in 0..(v.size - 1) :
       LET r == vector_get(v, i)
       IN  /\ status' = StatusOf(r.st)
           /\ hist' = Remember(Call("get", i, Uninit, v, r.st, r.ret))
  /\ UNCHANGED <<v, allocFailed, pushed, shell, reader>>

Set ==
  /\ status = "running" /\ v # NULL
  /\ \E i \in 0..(v.size - 1) : \E x \in Values :
       LET r == vector_set(v, i, x)
       IN  /\ v' = r.vec
           /\ status' = StatusOf(r.st)
           /\ hist' = Remember(Call("set", i, x, v, r.st, Uninit))
  /\ pushed' = NoLog
  /\ UNCHANGED <<allocFailed, shell, reader>>

\* realloc is reached by an insert exactly when the vector is full.
Grows(vec) == vec.size + 1 > vec.capacity

Insert ==
  /\ status = "running" /\ v # NULL /\ v.size < MaxSize
  /\ \E i \in 0..v.size : \E x \in Values :
     \E ok \in {b \in BOOLEAN : b \/ Grows(v)} :
       LET r == vector_insert(v, i, x, ok)
       IN  /\ v' = r.vec
           /\ status' = StatusOf(r.st)
           /\ allocFailed' = (allocFailed \/ ~ok)
           /\ hist' = Remember(Call("insert", i, x, v, r.st, Uninit))
  /\ pushed' = NoLog
  /\ UNCHANGED <<shell, reader>>

Remove ==
  /\ status = "running" /\ v # NULL
  /\ \E i \in 0..(v.size - 1) :
       LET r == vector_remove(v, i)
       IN  /\ v' = r.vec
           /\ status' = StatusOf(r.st)
           /\ hist' = Remember(Call("remove", i, Uninit, v, r.st, r.ret))
  /\ pushed' = NoLog
  /\ UNCHANGED <<allocFailed, shell, reader>>

Push ==
  /\ status = "running" /\ v # NULL /\ v.size < MaxSize
  /\ \E x \in Values : \E ok \in {b \in BOOLEAN : b \/ Grows(v)} :
       LET r == vector_push(v, x, ok)
       IN  /\ v' = r.vec
           /\ status' = StatusOf(r.st)
           /\ allocFailed' = (allocFailed \/ ~ok)
           /\ hist' = Remember(Call("push", 0, x, v, r.st, Uninit))
           /\ pushed' = IF pushed.clean
                        THEN [clean |-> TRUE, log |-> Append(pushed.log, x)]
                        ELSE NoLog
  /\ UNCHANGED <<shell, reader>>

Pop ==
  /\ status = "running" /\ v # NULL /\ v.size > 0
  /\ LET r == vector_pop(v)
     IN  /\ v' = r.vec
         /\ status' = StatusOf(r.st)
         /\ hist' = Remember(Call("pop", 0, Uninit, v, r.st, r.ret))
  /\ pushed' = NoLog
  /\ UNCHANGED <<allocFailed, shell, reader>>

Next ==
  \/ Create \/ Destroy \/ Size \/ InBounds \/ Get \/ Set
  \/ Insert \/ Remove \/ Push \/ Pop

Spec == Init /\ [][Next]_vars

\* ------------------------------------------------------- reading the state
\* The last call and the one before it.
Last == hist[Len(hist)]
Prev == hist[1]

Returned(c) == c.st = "ok"

\* The elements of a vector, indices 0..size-1, as a sequence.
Elements(vec) == [k \in 1..vec.size |-> vec.elems[k - 1]]

\* ------------------------------------------------------- shell: parsing
\* A command line is the sequence of its tokens, as strtok(.., " ") hands them
\* out; a token is the sequence of its characters and is never empty.
Tok(toks, k) == IF k <= Len(toks) THEN toks[k] ELSE NULL

DigitChars == <<"0", "1", "2", "3", "4", "5", "6", "7", "8", "9">>

\* The value of a character as a digit; 99 for any other character.
DigitVal(c) ==
  CASE c = "0" -> 0 [] c = "1" -> 1 [] c = "2" -> 2 [] c = "3" -> 3
    [] c = "4" -> 4 [] c = "5" -> 5 [] c = "6" -> 6 [] c = "7" -> 7
    [] c = "8" -> 8 [] c = "9" -> 9
    [] c \in {"a", "A"} -> 10 [] c \in {"b", "B"} -> 11
    [] c \in {"c", "C"} -> 12 [] c \in {"d", "D"} -> 13
    [] c \in {"e", "E"} -> 14 [] c \in {"f", "F"} -> 15
    [] OTHER -> 99

\* strtol(tok, &end, 0): an optional sign, the base taken from the prefix, then
\* the longest run of digits of that base.  The long result is kept as
\* sign * (hi * 2^16 + lo); end is the position of the first character not
\* converted (1 when nothing was converted).  Tokens here have at most ten
\* digits, so the long never overflows.
strtol(tok) ==
  LET n == Len(tok)
      neg == n >= 1 /\ tok[1] = "-"
      p0 == IF n >= 1 /\ tok[1] \in {"-", "+"} THEN 2 ELSE 1
      isHex == /\ p0 + 2 <= n
               /\ tok[p0] = "0"
               /\ tok[p0 + 1] \in {"x", "X"}
               /\ DigitVal(tok[p0 + 2]) < 16
      base == IF isHex THEN 16 ELSE IF p0 <= n /\ tok[p0] = "0" THEN 8 ELSE 10
      p1 == IF isHex THEN p0 + 2 ELSE p0
      RECURSIVE Acc(_, _, _)
      Acc(k, hi, lo) ==
        IF k > n \/ DigitVal(tok[k]) >= base
        THEN [end |-> k, hi |-> hi, lo |-> lo]
        ELSE LET t == lo * base + DigitVal(tok[k])
             IN  Acc(k + 1, hi * base + (t \div 65536), t % 65536)
      a == Acc(p1, 0, 0)
  IN  IF a.end = p1
      THEN [end |-> 1, neg |-> FALSE, hi |-> 0, lo |-> 0]
      ELSE [end |-> a.end, neg |-> neg, hi |-> a.hi, lo |-> a.lo]

\* *i = strtol(..): the long is converted to int, which keeps its low 32 bits
\* as a two's complement number.
LongToInt(r) ==
  LET h == r.hi % 65536
      l == r.lo
  IN  IF ~r.neg
      THEN IF h >= 32768 THEN (h - 65536) * 65536 + l ELSE h * 65536 + l
      ELSE IF h = 0 /\ l = 0 THEN 0
      ELSE IF h < 32768 \/ (h = 32768 /\ l = 0) THEN (0 - h) * 65536 - l
      ELSE IF l = 0 THEN (65536 - h) * 65536
      ELSE (65535 - h) * 65536 + (65536 - l)

\* The words run_cmd compares the first token with.
W_help == <<"h", "e", "l", "p">>
W_exit == <<"e", "x", "i", "t">>
W_quit == <<"q", "u", "i", "t">>
W_q == <<"q">>
W_init == <<"i", "n", "i", "t">>
W_size == <<"s", "i", "z", "e">>
W_ls == <<"l", "s">>
W_dump == <<"d", "u", "m", "p">>
W_print == <<"p", "r", "i", "n", "t">>
W_set == <<"s", "e", "t">>
W_get == <<"g", "e", "t">>
W_insert == <<"i", "n", "s", "e", "r", "t">>
W_remove == <<"r", "e", "m", "o", "v", "e">>
W_push == <<"p", "u", "s", "h">>
W_pop == <<"p", "o", "p">>
W_other == <<"f", "o", "o">>

\* The command lines typed at the shell.
WrapToken == <<"4", "2", "9", "4", "9", "6", "7", "2", "9", "6">>

IndexTokens ==
  { <<DigitChars[k + 1]>> : k \in 0..MaxSize }
    \cup { <<"-", "1">>, WrapToken, <<"1", "x">> }

NoArgWords ==
  {W_help, W_exit, W_quit, W_q, W_init, W_size, W_ls, W_dump, W_print, W_pop}

Words == NoArgWords \cup {W_set, W_get, W_insert, W_remove, W_push}

Lines ==
  {<<>>, <<W_other>>}
    \cup { <<w>> : w \in Words }
    \cup { <<w, <<"0">>>> : w \in NoArgWords \cup {W_set, W_insert} }
    \cup { <<w, t>> : w \in {W_get, W_remove}, t \in IndexTokens \cup Values }
    \cup { <<W_push, t>> : t \in Values }
    \cup { <<w, <<"0">>, <<"a">>>> : w \in {W_get, W_remove, W_push} }
    \cup { <<w, t, u>> : w \in {W_set, W_insert},
                         t \in IndexTokens \cup {<<"a">>}, u \in Values }
    \cup { <<w, <<"0">>, <<"a">>, <<"b">>>> : w \in {W_set, W_insert} }

\* What the shell prints.
MsgFormat == "error; use format"
MsgInit == "error; use init first to initialize a new empty vector"
MsgBounds == "error; out of bounds"
MsgEmpty == "error; empty"
MsgUnknown == "error; unknown command"
MsgHelp == "help"
MsgNew == "v = []"
MsgSize == "|v| = %d"
MsgList == "v = [..]"
MsgAssign == "v[%d] = %s"
MsgRemoved == "# v[%d] = %s"

\* parse: no further token.
parse(toks) == [ok |-> Tok(toks, 2) = NULL]

\* parse_i: one index token, wholly converted by strtol, and nothing after
\* it; the long is assigned to the int i.
parse_i(toks) ==
  LET index == Tok(toks, 2)
  IN  IF index = NULL \/ strtol(index).end <= Len(index) \/ Tok(toks, 3) # NULL
      THEN [ok |-> FALSE, i |-> 0]
      ELSE [ok |-> TRUE, i |-> LongToInt(strtol(index))]

\* parse_v: one value token and nothing after it; the value is a copy.
parse_v(toks) ==
  LET token == Tok(toks, 2)
  IN  IF token = NULL \/ Tok(toks, 3) # NULL
      THEN [ok |-> FALSE, value |-> Uninit]
      ELSE [ok |-> TRUE, value |-> token]

\* parse_iv: an index token, a value token and nothing after them.
parse_iv(toks) ==
  LET index == Tok(toks, 2)
      token == Tok(toks, 3)
  IN  IF token = NULL \/ strtol(index).end <= Len(index) \/ Tok(toks, 4) # NULL
      THEN [ok |-> FALSE, i |-> 0, value |-> Uninit]
      ELSE [ok |-> TRUE, i |-> LongToInt(strtol(index)), value |-> token]

ensure_exists(vec) == vec # NULL

\* ------------------------------------------------------ shell: commands
\* What one command did: the vector it leaves, how it ended ("ok", "abort",
\* "segv" or "exit"), what it printed, the calls it made, and whether an
\* allocation failed.
Done(vec, st, o, cs, failed) ==
  [vec |-> vec, st |-> st, out |-> o, calls |-> cs, failed |-> failed]

\* for (i = 0; i < vector_size(v); i += 1) .. vector_get(v, i) ..: the calls
\* of the loops of do_cleanup and of the listing.
RECURSIVE LoopCalls(_, _)
LoopCalls(vec, i) ==
  LET s == Call("size", 0, Uninit, vec, "ok", vector_size(vec))
      g == vector_get(vec, i)
  IN  IF ~(i < vector_size(vec)) THEN <<s>>
      ELSE IF g.st # "ok" THEN <<s, Call("get", i, Uninit, vec, g.st, g.ret)>>
      ELSE <<s, Call("get", i, Uninit, vec, g.st, g.ret)>> \o LoopCalls(vec, i + 1)

LoopSt(cs) == cs[Len(cs)].st

\* do_cleanup: frees every stored value, then the vector.
do_cleanup(vec) ==
  IF vec # NULL
  THEN LET cs == LoopCalls(vec, 0)
       IN  IF LoopSt(cs) # "ok" THEN cs
           ELSE cs \o <<Call("destroy", 0, Uninit, vec, "ok", Uninit)>>
  ELSE <<>>

\* A bounds test that forgets the negative indices.
insert_out_of_bounds_above(vec, i) == i > vector_size(vec)

\* The bounds test of the insert command.
insert_out_of_bounds(vec, i) == i < 0 \/ i > vector_size(vec)

cmd_help(toks, vec) ==
  IF ~parse(toks).ok THEN Done(vec, "ok", <<MsgFormat>>, <<>>, FALSE)
  ELSE Done(vec, "ok", <<MsgHelp>>, <<>>, FALSE)

cmd_exit(toks, vec) ==
  IF ~parse(toks).ok THEN Done(vec, "ok", <<MsgFormat>>, <<>>, FALSE)
  ELSE Done(vec, "exit", <<>>, <<>>, FALSE)

cmd_init(toks, vec, okv, oke) ==
  LET cl == do_cleanup(vec)
      r == vector_create(okv, oke)
      cs == cl \o <<Call("create", 0, Uninit, NULL, r.st, Uninit)>>
  IN  IF ~parse(toks).ok THEN Done(vec, "ok", <<MsgFormat>>, <<>>, FALSE)
      ELSE IF cl # <<>> /\ LoopSt(cl) # "ok"
      THEN Done(vec, LoopSt(cl), <<>>, cl, FALSE)
      ELSE IF r.st # "ok" THEN Done(r.vec, r.st, <<>>, cs, TRUE)
      ELSE Done(r.vec, "ok", <<MsgNew>>, cs, FALSE)

cmd_size(toks, vec) ==
  IF ~parse(toks).ok THEN Done(vec, "ok", <<MsgFormat>>, <<>>, FALSE)
  ELSE IF ~ensure_exists(vec) THEN Done(vec, "ok", <<MsgInit>>, <<>>, FALSE)
  ELSE Done(vec, "ok", <<MsgSize>>,
            <<Call("size", 0, Uninit, vec, "ok", vector_size(vec))>>, FALSE)

cmd_ls(toks, vec) ==
  IF ~parse(toks).ok THEN Done(vec, "ok", <<MsgFormat>>, <<>>, FALSE)
  ELSE IF ~ensure_exists(vec) THEN Done(vec, "ok", <<MsgInit>>, <<>>, FALSE)
  ELSE LET cs == LoopCalls(vec, 0)
       IN  IF LoopSt(cs) # "ok" THEN Done(vec, LoopSt(cs), <<>>, cs, FALSE)
           ELSE Done(vec, "ok", <<MsgList>>, cs, FALSE)

cmd_set(toks, vec) ==
  LET p == parse_iv(toks)
      b == Call("in_bounds", p.i, Uninit, vec, "ok", vector_in_bounds(vec, p.i))
      r == vector_set(vec, p.i, p.value)
      c == Call("set", p.i, p.value, vec, r.st, Uninit)
  IN  IF ~p.ok THEN Done(vec, "ok", <<MsgFormat>>, <<>>, FALSE)
      ELSE IF ~ensure_exists(vec) THEN Done(vec, "ok", <<MsgInit>>, <<>>, FALSE)
      ELSE IF ~b.ret THEN Done(vec, "ok", <<MsgBounds>>, <<b>>, FALSE)
      ELSE IF r.st # "ok" THEN Done(r.vec, r.st, <<>>, <<b, c>>, FALSE)
      ELSE Done(r.vec, "ok", <<MsgAssign>>, <<b, c>>, FALSE)

cmd_get(toks, vec) ==
  LET p == parse_i(toks)
      b == Call("in_bounds", p.i, Uninit, vec, "ok", vector_in_bounds(vec, p.i))
      r == vector_get(vec, p.i)
      c == Call("get", p.i, Uninit, vec, r.st, r.ret)
  IN  IF ~p.ok THEN Done(vec, "ok", <<MsgFormat>>, <<>>, FALSE)
      ELSE IF ~ensure_exists(vec) THEN Done(vec, "ok", <<MsgInit>>, <<>>, FALSE)
      ELSE IF ~b.ret THEN Done(vec, "ok", <<MsgBounds>>, <<b>>, FALSE)
      ELSE IF r.st # "ok" THEN Done(vec, r.st, <<>>, <<b, c>>, FALSE)
      ELSE Done(vec, "ok", <<MsgAssign>>, <<b, c>>, FALSE)

cmd_insert(toks, vec, ok) ==
  LET p == parse_iv(toks)
      s == Call("size", 0, Uninit, vec, "ok", vector_size(vec))
      r == vector_insert(vec, p.i, p.value, ok)
      c == Call("insert", p.i, p.value, vec, r.st, Uninit)
  IN  IF ~p.ok THEN Done(vec, "ok", <<MsgFormat>>, <<>>, FALSE)
      ELSE IF ~ensure_exists(vec) THEN Done(vec, "ok", <<MsgInit>>, <<>>, FALSE)
      ELSE IF insert_out_of_bounds(vec, p.i)
      THEN Done(vec, "ok", <<MsgBounds>>, IF p.i < 0 THEN <<>> ELSE <<s>>, FALSE)
      ELSE IF r.st # "ok" THEN Done(r.vec, r.st, <<>>, <<s, c>>, ~ok)
      ELSE Done(r.vec, "ok", <<MsgAssign>>, <<s, c>>, ~ok)

cmd_remove(toks, vec) ==
  LET p == parse_i(toks)
      b == Call("in_bounds", p.i, Uninit, vec, "ok", vector_in_bounds(vec, p.i))
      r == vector_remove(vec, p.i)
      c == Call("remove", p.i, Uninit, vec, r.st, r.ret)
  IN  IF ~p.ok THEN Done(vec, "ok", <<MsgFormat>>, <<>>, FALSE)
      ELSE IF ~ensure_exists(vec) THEN Done(vec, "ok", <<MsgInit>>, <<>>, FALSE)
      ELSE IF ~b.ret THEN Done(vec, "ok", <<MsgBounds>>, <<b>>, FALSE)
      ELSE IF r.st # "ok" THEN Done(r.vec, r.st, <<>>, <<b, c>>, FALSE)
      ELSE Done(r.vec, "ok", <<MsgRemoved>>, <<b, c>>, FALSE)

cmd_push(toks, vec, ok) ==
  LET p == parse_v(toks)
      r == vector_push(vec, p.value, ok)
      c == Call("push", 0, p.value, vec, r.st, Uninit)
      s == Call("size", 0, Uninit, r.vec, "ok", vector_size(r.vec))
  IN  IF ~p.ok THEN Done(vec, "ok", <<MsgFormat>>, <<>>, FALSE)
      ELSE IF ~ensure_exists(vec) THEN Done(vec, "ok", <<MsgInit>>, <<>>, FALSE)
      ELSE IF r.st # "ok" THEN Done(r.vec, r.st, <<>>, <<c>>, ~ok)
      ELSE Done(r.vec, "ok", <<MsgAssign>>, <<c, s>>, ~ok)

\* The emptiness test of the pop command.
pop_empty(vec) == vector_size(vec) = 0

cmd_pop(toks, vec) ==
  LET s == Call("size", 0, Uninit, vec, "ok", vector_size(vec))
      r == vector_pop(vec)
      c == Call("pop", 0, Uninit, vec, r.st, r.ret)
      s2 == Call("size", 0, Uninit, r.vec, "ok", vector_size(r.vec))
  IN  IF ~parse(toks).ok THEN Done(vec, "ok", <<MsgFormat>>, <<>>, FALSE)
      ELSE IF ~ensure_exists(vec) THEN Done(vec, "ok", <<MsgInit>>, <<>>, FALSE)
      ELSE IF pop_empty(vec) THEN Done(vec, "ok", <<MsgEmpty>>, <<s>>, FALSE)
      ELSE IF r.st # "ok" THEN Done(r.vec, r.st, <<>>, <<s, c>>, FALSE)
      ELSE Done(r.vec, "ok", <<MsgRemoved>>, <<s, c, s2>>, FALSE)

cmd_unknown(toks, vec) == Done(vec, "ok", <<MsgUnknown>>, <<>>, FALSE)

\* ------------------------------------------------- shell: the main loop
\* The number of calls of a command that satisfy a test.
Count(cs, Test(_)) == Cardinality({ k \in DOMAIN cs : Test(cs[k]) })

\* strdup in parse_v and parse_iv: one copy of the value token per line that
\* parses.
Strdups(toks) ==
  IF toks = <<>> THEN 0
  ELSE IF toks[1] \in {W_set, W_insert} /\ parse_iv(toks).ok THEN 1
  ELSE IF toks[1] = W_push /\ parse_v(toks).ok THEN 1
  ELSE 0

\* free: do_cleanup frees what each vector_get returns, the remove and pop
\* commands free what they took out.  No other command frees a value.
Frees(toks, cs) ==
  IF toks = <<>> THEN 0
  ELSE IF toks[1] = W_init
  THEN Count(cs, LAMBDA c : c.op = "get" /\ c.st = "ok")
  ELSE IF toks[1] \in {W_remove, W_pop}
  THEN Count(cs, LAMBDA c : c.op \in {"remove", "pop"} /\ c.st = "ok")
  ELSE 0

\* malloc in vector_create and free in vector_destroy.
HeapAfter(toks, r) ==
  [vectors |-> heap.vectors
                 + Count(r.calls, LAMBDA c : c.op = "create" /\ c.st = "ok")
                 - Count(r.calls, LAMBDA c : c.op = "destroy")]

\* The values a vector stores.
Stored(vec) == IF vec = NULL THEN 0 ELSE vec.size

\* What run_cmd on a line does to the vector and to the history of the shell.
Effect(toks, r) ==
  /\ line' = toks
  /\ before' = v
  /\ v' = r.vec
  /\ status' = StatusOf(r.st)
  /\ out' = r.out
  /\ calls' = r.calls
  /\ allocFailed' = (allocFailed \/ r.failed)
  /\ heap' = HeapAfter(toks, r)
  /\ UNCHANGED <<hist, pushed>>

\* main: run_cmd on the line read, until the process ends.
Finish(toks, r) == Effect(toks, r) /\ UNCHANGED reader

LinesOf(ws) == { toks \in Lines : toks # <<>> /\ toks[1] \in ws }

\* The shell stops growing the vector at MaxSize elements.
Room == IF v = NULL THEN TRUE ELSE v.size < MaxSize

\* realloc can fail only where it is called.
ReallocResults == { b \in BOOLEAN : b \/ (v # NULL /\ Grows(v)) }

CmdEmpty ==
  /\ status = "running"
  /\ Finish(<<>>, Done(v, "ok", <<>>, <<>>, FALSE))

CmdHelp ==
  /\ status = "running"
  /\ \E toks \in LinesOf({W_help}) : Finish(toks, cmd_help(toks, v))

CmdExit ==
  /\ status = "running"
  /\ \E toks \in LinesOf({W_exit, W_quit, W_q}) : Finish(toks, cmd_exit(toks, v))

CmdInit ==
  /\ status = "running"
  /\ \E toks \in LinesOf({W_init}) :
     \E okv \in BOOLEAN : \E oke \in {b \in BOOLEAN : okv \/ b} :
       Finish(toks, cmd_init(toks, v, okv, oke))

CmdSize ==
  /\ status = "running"
  /\ \E toks \in LinesOf({W_size}) : Finish(toks, cmd_size(toks, v))

CmdLs ==
  /\ status = "running"
  /\ \E toks \in LinesOf({W_ls, W_dump, W_print}) : Finish(toks, cmd_ls(toks, v))

CmdSet ==
  /\ status = "running"
  /\ \E toks \in LinesOf({W_set}) : Finish(toks, cmd_set(toks, v))

CmdGet ==
  /\ status = "running"
  /\ \E toks \in LinesOf({W_get}) : Finish(toks, cmd_get(toks, v))

CmdInsert ==
  /\ status = "running" /\ Room
  /\ \E toks \in LinesOf({W_insert}) : \E ok \in ReallocResults :
       Finish(toks, cmd_insert(toks, v, ok))

CmdRemove ==
  /\ status = "running"
  /\ \E toks \in LinesOf({W_remove}) : Finish(toks, cmd_remove(toks, v))

CmdPush ==
  /\ status = "running" /\ Room
  /\ \E toks \in LinesOf({W_push}) : \E ok \in ReallocResults :
       Finish(toks, cmd_push(toks, v, ok))

CmdPop ==
  /\ status = "running"
  /\ \E toks \in LinesOf({W_pop}) : Finish(toks, cmd_pop(toks, v))

CmdUnknown ==
  /\ status = "running"
  /\ \E toks \in LinesOf({W_other}) : Finish(toks, cmd_unknown(toks, v))

NextCli ==
  \/ CmdEmpty \/ CmdHelp \/ CmdExit \/ CmdInit \/ CmdSize \/ CmdLs
  \/ CmdSet \/ CmdGet \/ CmdInsert \/ CmdRemove \/ CmdPush \/ CmdPop
  \/ CmdUnknown

SpecCli == Init /\ [][NextCli]_vars

\* ------------------------------------------------------------ shell: main
\* Characters are one-character strings.  NUL is '\0'; EOF is the int that
\* getchar returns at end of input; CharFF is (char) EOF.
NUL == "NUL"
EOF == "EOF"
CharFF == "0xFF"
NewLine == "\n"
Space == " "

\* getchar(): the next character of stdin, or EOF with the indicator set.
getchar(inp, p, e) ==
  IF p < Len(inp) THEN [c |-> inp[p + 1], pos |-> p + 1, eof |-> e]
  ELSE [c |-> EOF, pos |-> p, eof |-> TRUE]

\* char ch = getchar(): the int is converted to char.
ToChar(c) == IF c = EOF THEN CharFF ELSE c

\* ch == '\n' || ch == '\0'
EndsLine(c) == c = NewLine \/ c = NUL

\* A consume loop that gives up after the first character.
consume_one(c) == FALSE

\* ch != '\n' && ch != '\0': the consume loop of read_cmd goes on.
consume_more(c) == ~EndsLine(c)

\* The first position from p on whose character passes Test.
First(buf, p, Test(_)) ==
  CHOOSE k \in p..Len(buf) : Test(buf[k]) /\ \A j \in p..(k - 1) : ~Test(buf[j])

\* The string held in a buffer: the characters before its first NUL.
cstring(buf) == SubSeq(buf, 1, First(buf, 1, LAMBDA c : c = NUL) - 1)

\* strtok(.., " ") on the line in buf.  A token starts at a character other
\* than the delimiter that begins the string or follows a delimiter, and ends
\* before the next delimiter or the terminating NUL.
StrEnd(buf) == First(buf, 1, LAMBDA c : c = NUL)

TokenStarts(buf) ==
  { k \in 1..(StrEnd(buf) - 1) : buf[k] # Space /\ (k = 1 \/ buf[k - 1] = Space) }

TokenEnd(buf, k) == First(buf, k, LAMBDA c : c = Space \/ c = NUL)

NthStart(buf, n) ==
  CHOOSE k \in TokenStarts(buf) : Cardinality({ j \in TokenStarts(buf) : j <= k }) = n

\* The n-th call of strtok on the line: the n-th token, or NULL.
strtok(buf, n) ==
  IF n <= Cardinality(TokenStarts(buf))
  THEN SubSeq(buf, NthStart(buf, n), TokenEnd(buf, NthStart(buf, n)) - 1)
  ELSE NULL

\* The tokens successive calls of strtok hand out, until it returns NULL.
Tokens(buf) == [n \in 1..Cardinality(TokenStarts(buf)) |-> strtok(buf, n)]

\* The buffer after n calls of strtok: each call that found a token has
\* overwritten the delimiter that ended it with NUL.
Scanned(buf, n) ==
  [k \in DOMAIN buf |->
     IF /\ buf[k] = Space
        /\ \E m \in 1..n : /\ m <= Cardinality(TokenStarts(buf))
                           /\ TokenEnd(buf, NthStart(buf, m)) = k
     THEN NUL ELSE buf[k]]

\* The number of strtok calls run_cmd and its parser make on a line.
StrtokCalls(toks) ==
  IF toks = <<>> THEN 1
  ELSE IF toks[1] \in NoArgWords \ {W_other} THEN 2
  ELSE IF toks[1] \in {W_get, W_remove}
  THEN IF Tok(toks, 2) = NULL THEN 2
       ELSE IF strtol(toks[2]).end <= Len(toks[2]) THEN 2 ELSE 3
  ELSE IF toks[1] = W_push THEN IF Tok(toks, 2) = NULL THEN 2 ELSE 3
  ELSE IF toks[1] \in {W_set, W_insert}
  THEN IF Tok(toks, 3) = NULL THEN 3
       ELSE IF strtol(toks[2]).end <= Len(toks[2]) THEN 3 ELSE 4
  ELSE 1

\* run_cmd: the chain of strcmp on the first token.
run_cmd(toks, vec, okv, oke, ok) ==
  IF toks = <<>> THEN Done(vec, "ok", <<>>, <<>>, FALSE)
  ELSE IF toks[1] = W_help THEN cmd_help(toks, vec)
  ELSE IF toks[1] \in {W_exit, W_quit, W_q} THEN cmd_exit(toks, vec)
  ELSE IF toks[1] = W_init THEN cmd_init(toks, vec, okv, oke)
  ELSE IF toks[1] = W_size THEN cmd_size(toks, vec)
  ELSE IF toks[1] \in {W_ls, W_dump, W_print} THEN cmd_ls(toks, vec)
  ELSE IF toks[1] = W_set THEN cmd_set(toks, vec)
  ELSE IF toks[1] = W_get THEN cmd_get(toks, vec)
  ELSE IF toks[1] = W_insert THEN cmd_insert(toks, vec, ok)
  ELSE IF toks[1] = W_remove THEN cmd_remove(toks, vec)
  ELSE IF toks[1] = W_push THEN cmd_push(toks, vec, ok)
  ELSE IF toks[1] = W_pop THEN cmd_pop(toks, vec)
  ELSE cmd_unknown(toks, vec)

\* What the shell did, in order.
Prompted == [ev |-> "prompt", line |-> <<>>]
TooLong == [ev |-> "error; line too long (> 80)", line |-> <<>>]
Ran(l) == [ev |-> "run_cmd", line |-> l]

\* Standard input: up to MaxLines terminated lines, then nothing or a last
\* line that no terminator follows.
Pad(l, n) == l \o [k \in 1..(n - Len(l)) |-> Space]

Line80 == Pad(W_push \o <<Space, "a">>, MAX_LINE)
Line81 == Pad(W_push \o <<Space, "b">>, MAX_LINE + 1)
Line84 == Line81 \o W_pop

Bodies == {W_init, W_q, Line80, Line81, Line84}

TerminatedLines ==
  { b \o <<NewLine>> : b \in Bodies } \cup { b \o <<NUL>> : b \in {W_init, Line81} }

LastLines == {<<>>, W_init, Line81}

RECURSIVE StreamsOf(_)
StreamsOf(n) ==
  IF n = 0 THEN {<<>>}
  ELSE StreamsOf(n - 1) \cup { l \o t : l \in TerminatedLines, t \in StreamsOf(n - 1) }

Streams == { t \o l : t \in StreamsOf(MaxLines), l \in LastLines }

InitMain == Start /\ input \in Streams

vector_state == <<v, status, allocFailed, hist, pushed, shell>>

\* read_cmd, top of the while loop: feof, then the prompt.
ReadTop ==
  /\ status = "running" /\ pc = "top"
  /\ IF eof
     THEN pc' = "done" /\ UNCHANGED <<idx, trace>>
     ELSE pc' = "fill" /\ idx' = 0 /\ trace' = Append(trace, Prompted)
  /\ UNCHANGED <<input, pos, eof, dest, ch, vector_state>>

\* read_cmd, one round of the for loop.
Fill ==
  /\ status = "running" /\ pc = "fill" /\ idx <= MAX_LINE
  /\ pos' = getchar(input, pos, eof).pos
  /\ eof' = getchar(input, pos, eof).eof
  /\ ch' = ToChar(getchar(input, pos, eof).c)
  /\ IF EndsLine(ToChar(getchar(input, pos, eof).c))
     THEN /\ dest' = [dest EXCEPT ![idx + 1] = NUL]
          /\ pc' = "run"
          /\ idx' = idx
     ELSE /\ dest' = [dest EXCEPT ![idx + 1] = ToChar(getchar(input, pos, eof).c)]
          /\ pc' = "fill"
          /\ idx' = idx + 1
  /\ UNCHANGED <<input, trace, vector_state>>

\* read_cmd, the for loop ends with the buffer full.
Overrun ==
  /\ status = "running" /\ pc = "fill" /\ idx > MAX_LINE
  /\ pc' = "get"
  /\ UNCHANGED <<input, pos, eof, dest, idx, ch, trace, vector_state>>

\* read_cmd, the consume loop: ch = getchar().
ConsumeGet ==
  /\ status = "running" /\ pc = "get"
  /\ pos' = getchar(input, pos, eof).pos
  /\ eof' = getchar(input, pos, eof).eof
  /\ ch' = ToChar(getchar(input, pos, eof).c)
  /\ pc' = "test"
  /\ UNCHANGED <<input, dest, idx, trace, vector_state>>

\* read_cmd, the consume loop: its test, and the error once it ends.
ConsumeTest ==
  /\ status = "running" /\ pc = "test"
  /\ IF consume_more(ch)
     THEN pc' = "get" /\ UNCHANGED trace
     ELSE pc' = "top" /\ trace' = Append(trace, TooLong)
  /\ UNCHANGED <<input, pos, eof, dest, idx, ch, vector_state>>

\* main: run_cmd(command) on the line read_cmd returned.
RunCmd ==
  /\ status = "running" /\ pc = "run"
  /\ \E okv \in BOOLEAN : \E oke \in {b \in BOOLEAN : okv \/ b} :
     \E ok \in ReallocResults :
       Effect(Tokens(dest), run_cmd(Tokens(dest), v, okv, oke, ok))
  /\ trace' = Append(trace, Ran(cstring(dest)))
  /\ dest' = Scanned(dest, StrtokCalls(Tokens(dest)))
  /\ pc' = "top"
  /\ UNCHANGED <<input, pos, eof, idx, ch>>

NextMain == ReadTop \/ Fill \/ Overrun \/ ConsumeGet \/ ConsumeTest \/ RunCmd

SpecMain == InitMain /\ [][NextMain]_vars

\* A running process keeps taking steps.
SpecMainFair == SpecMain /\ WF_vars(NextMain)

\* ------------------------------------------------------------- properties
\* C1: an insert at index i with 0 <= i <= size that returns has grown size by
\* exactly 1, holds the value at i, has left every element below i where it
\* was and has moved every element from i on up by one (reallocation or not).
InsertShiftsRight ==
  (hist # <<>> /\ Last.op = "insert" /\ Returned(Last)) =>
    LET p == Last.pre
        i == Last.i
    IN  /\ v.size = p.size + 1
        /\ v.elems[i] = Last.value
        /\ \A j \in 0..(i - 1) : v.elems[j] = p.elems[j]
        /\ \A j \in i..(p.size - 1) : v.elems[j + 1] = p.elems[j]

\* An insert below the end of a full vector has returned: it shifted and
\* reallocated.
InsertShiftsRightWitness ==
  /\ hist # <<>> /\ Last.op = "insert" /\ Returned(Last)
  /\ Last.i + 1 < Last.pre.size
  /\ v.capacity > Last.pre.capacity

\* C2: a remove at index i with 0 <= i < size returns the handle that was at i,
\* shrinks size by exactly 1, leaves every element below i where it was and
\* moves every element above i down by one.
RemoveShiftsLeft ==
  (hist # <<>> /\ Last.op = "remove" /\ Returned(Last)) =>
    LET p == Last.pre
        i == Last.i
    IN  /\ Last.ret = p.elems[i]
        /\ v.size = p.size - 1
        /\ \A j \in 0..(i - 1) : v.elems[j] = p.elems[j]
        /\ \A j \in (i + 1)..(p.size - 1) : v.elems[j - 1] = p.elems[j]

\* A remove with elements on both sides of the removed one.
RemoveShiftsLeftWitness ==
  /\ hist # <<>> /\ Last.op = "remove" /\ Returned(Last)
  /\ 0 < Last.i /\ Last.i + 1 < Last.pre.size
  /\ Last.pre.elems[Last.i] # Last.pre.elems[Last.i + 1]

\* C3: vector_in_bounds(v, i) is true exactly when 0 <= i < size, for every
\* int i, negative ones and i = size included.
InBoundsIffInRange ==
  (hist # <<>> /\ Last.op = "in_bounds") =>
    (Last.ret <=> (0 <= Last.i /\ Last.i < Last.pre.size))

\* A negative index was asked about on a vector that is not empty.
InBoundsIffInRangeWitness ==
  /\ hist # <<>> /\ Last.op = "in_bounds"
  /\ Last.i < 0 /\ Last.pre.size > 0 /\ Last.ret = FALSE

\* C4: after every operation that returns, 0 <= size <= capacity and
\* capacity >= 1.
SizeWithinCapacity ==
  (status = "running" /\ v # NULL) =>
    /\ 0 <= v.size
    /\ v.size <= v.capacity
    /\ v.capacity >= 1

\* An insert has just filled a vector whose capacity it doubled.
SizeWithinCapacityWitness ==
  /\ status = "running" /\ v # NULL
  /\ hist # <<>> /\ Last.op \in {"insert", "push"} /\ Returned(Last)
  /\ v.capacity = 2 * Last.pre.capacity
  /\ v.size = Last.pre.capacity + 1

\* C5: after n pushes on a fresh vector, vector_size is n and vector_get(i) is
\* the value of the (i+1)-th push; a push that doubles the capacity leaves the
\* elements stored before it at their indices.
PushesKeepOrder ==
  /\ (status = "running" /\ v # NULL /\ pushed.clean) =>
       /\ vector_size(v) = Len(pushed.log)
       /\ \A i \in 0..(Len(pushed.log) - 1) :
            /\ vector_get(v, i).st = "ok"
            /\ vector_get(v, i).ret = pushed.log[i + 1]
  /\ (hist # <<>> /\ Last.op = "push" /\ Returned(Last)
        /\ v.capacity # Last.pre.capacity) =>
       \A j \in 0..(Last.pre.size - 1) :
         vector_get(v, j).ret = vector_get(Last.pre, j).ret

\* Three pushes of values that are not all the same, across two doublings.
PushesKeepOrderWitness ==
  /\ status = "running" /\ v # NULL /\ pushed.clean
  /\ Len(pushed.log) >= 3
  /\ pushed.log[1] # pushed.log[2]
  /\ v.capacity >= 4
  /\ hist # <<>> /\ Last.op = "push" /\ v.capacity # Last.pre.capacity

\* C6: an insert at i followed at once by a remove at i returns the inserted
\* value and restores the size and the sequence of elements.
InsertThenRemove ==
  (/\ Len(hist) = 2
   /\ Prev.op = "insert" /\ Returned(Prev)
   /\ Last.op = "remove" /\ Returned(Last)
   /\ Last.i = Prev.i) =>
     /\ Last.ret = Prev.value
     /\ vector_size(v) = vector_size(Prev.pre)
     /\ Elements(v) = Elements(Prev.pre)

\* The round trip was made below the end of a vector that the insert grew.
InsertThenRemoveWitness ==
  /\ Len(hist) = 2
  /\ Prev.op = "insert" /\ Returned(Prev)
  /\ Last.op = "remove" /\ Returned(Last)
  /\ Last.i = Prev.i
  /\ Prev.i < Prev.pre.size
  /\ Last.pre.capacity > Prev.pre.capacity

\* C7: a push followed at once by a pop returns the pushed value and restores
\* the size and the elements; a push stores at index size as an insert there
\* does, a pop takes from index size - 1 as a remove there does.
PushThenPop ==
  /\ (/\ Len(hist) = 2
      /\ Prev.op = "push" /\ Returned(Prev)
      /\ Last.op = "pop" /\ Returned(Last)) =>
        /\ Last.ret = Prev.value
        /\ vector_size(v) = vector_size(Prev.pre)
        /\ Elements(v) = Elements(Prev.pre)
  /\ (hist # <<>> /\ Last.op = "push" /\ Returned(Last)) =>
        /\ v.size = Last.pre.size + 1
        /\ v.elems[Last.pre.size] = Last.value
        /\ \A j \in 0..(Last.pre.size - 1) : v.elems[j] = Last.pre.elems[j]
  /\ (hist # <<>> /\ Last.op = "pop" /\ Returned(Last)) =>
        /\ Last.ret = Last.pre.elems[Last.pre.size - 1]
        /\ v.size = Last.pre.size - 1
        /\ \A j \in 0..(Last.pre.size - 2) : v.elems[j] = Last.pre.elems[j]

\* A value was pushed onto a vector that ends in a different value, then
\* popped.
PushThenPopWitness ==
  /\ Len(hist) = 2
  /\ Prev.op = "push" /\ Returned(Prev)
  /\ Last.op = "pop" /\ Returned(Last)
  /\ Prev.pre.size > 0
  /\ Prev.pre.elems[Prev.pre.size - 1] # Prev.value

\* C8: whenever an allocation has failed, the process was aborted; it never
\* goes on to touch the backing store.
AllocFailureAborts == allocFailed => status = "aborted"

\* The decimal numeral of a natural number.
RECURSIVE Decimal(_)
Decimal(k) ==
  IF k < 10 THEN <<DigitChars[k + 1]>>
  ELSE Append(Decimal(k \div 10), DigitChars[(k % 10) + 1])

\* A token that is a decimal integer: an optional sign, then digits only.
IsNumber(tok) ==
  LET p == IF tok[1] \in {"-", "+"} THEN 2 ELSE 1
  IN  /\ p <= Len(tok)
      /\ \A k \in p..Len(tok) : DigitVal(tok[k]) < 10

\* The integer a token denotes lies in lo..hi (0 <= lo): the token is the
\* numeral of one of them, with or without a plus sign.
DenotesWithin(tok, lo, hi) ==
  \E k \in lo..hi : tok = Decimal(k) \/ tok = <<"+">> \o Decimal(k)

\* The arguments of a command line have the shape its command takes.
ArgShapeOk(toks) ==
  CASE toks[1] \in NoArgWords -> Len(toks) = 1
    [] toks[1] \in {W_get, W_remove} -> Len(toks) = 2 /\ IsNumber(toks[2])
    [] toks[1] \in {W_set, W_insert} -> Len(toks) = 3 /\ IsNumber(toks[2])
    [] toks[1] = W_push -> Len(toks) = 2

\* The index a well-shaped command line names is one its command accepts on a
\* vector of this size.
IndexInRange(toks, size) ==
  CASE toks[1] \in {W_get, W_set, W_remove} -> DenotesWithin(toks[2], 0, size - 1)
    [] toks[1] = W_insert -> DenotesWithin(toks[2], 0, size)
    [] OTHER -> TRUE

ErrorPrinted ==
  \E k \in DOMAIN out :
    out[k] \in {MsgFormat, MsgInit, MsgBounds, MsgEmpty, MsgUnknown}

SameContainer ==
  IF before = NULL THEN v = NULL
  ELSE v # NULL /\ v.size = before.size /\ Elements(v) = Elements(before)

\* C9: a command line with malformed arguments, or with an index out of range
\* for its command, makes run_cmd print an error and leaves the size and the
\* elements of the container as they were.
RejectedLineChangesNothing ==
  (/\ line # <<>>
   /\ line[1] \in Words
   /\ \/ ~ArgShapeOk(line)
      \/ before # NULL /\ ~IndexInRange(line, before.size)) =>
     ErrorPrinted /\ SameContainer

\* The precondition of a call of vector.h, on the vector it was made on.
PreconditionHeld(c) ==
  \/ c.op = "create"
  \/ /\ c.pre # NULL
     /\ c.op \in {"get", "set", "remove"} => (0 <= c.i /\ c.i < c.pre.size)
     /\ c.op = "insert" => (0 <= c.i /\ c.i <= c.pre.size)
     /\ c.op = "pop" => c.pre.size > 0

\* C10: every call the shell makes meets its precondition: the vector exists,
\* get/set/remove have 0 <= i < size, insert has 0 <= i <= size, pop has
\* size > 0; pop on an empty vector prints the empty error and calls nothing
\* that pops; the assertion of get_element never fails.
ShellKeepsPreconditions ==
  /\ \A k \in DOMAIN calls :
       /\ PreconditionHeld(calls[k])
       /\ calls[k].op # "create" => calls[k].st # "abort"
  /\ (line = <<W_pop>> /\ before # NULL /\ before.size = 0) =>
       /\ out = <<MsgEmpty>>
       /\ \A k \in DOMAIN calls : calls[k].op \notin {"pop", "remove"}
       /\ v = before

\* The shell refused a get, set or remove at the index equal to the size of
\* a vector that is not empty, after asking vector_in_bounds.
ShellKeepsPreconditionsWitness ==
  /\ Len(line) >= 2 /\ line[1] \in {W_get, W_set, W_remove}
  /\ before # NULL /\ before.size > 0
  /\ Len(calls) = 1 /\ calls[1].op = "in_bounds"
  /\ calls[1].i = before.size /\ calls[1].ret = FALSE
  /\ out = <<MsgBounds>>

\* C11: every container the shell created is destroyed exactly once by the
\* time the shell has ended, and after a container was destroyed the command
\* calls nothing but vector_create.
ContainersDestroyedOnce ==
  /\ status = "exited" => heap.vectors = 0
  /\ heap.vectors \in {0, 1}
  /\ \A k \in DOMAIN calls :
       calls[k].op = "destroy" =>
         \A j \in (k + 1)..Len(calls) : calls[j].op = "create"

\* C16: every value copy the shell allocates is stored in the vector or
\* freed: over each command, the copies made less the values freed are the
\* values the vector gained.
ValuesStoredOrFreed ==
  status = "running" =>
    Strdups(line) - Frees(line, calls) = Stored(v) - Stored(before)

\* C17: the record vector_create allocates holds every member of struct
\* vector: each member ends within the bytes asked of malloc.
RecordHoldsStruct ==
  v # NULL => \A m \in StructVector : m.offset + m.width <= v.record

RECURSIVE IsPowerOfTwo(_)
IsPowerOfTwo(n) ==
  IF n = 1 THEN TRUE
  ELSE IF n < 1 \/ n % 2 = 1 THEN FALSE
  ELSE IsPowerOfTwo(n \div 2)

\* C13: capacity is 1 after vector_create; an insert or push that returns
\* doubles it exactly when it found size = capacity and otherwise keeps it;
\* set, get, size, in_bounds, remove and pop keep it; so it never decreases
\* and is a power of two.
CapacityDoublesWhenFull ==
  /\ (status = "running" /\ v # NULL) => IsPowerOfTwo(v.capacity)
  /\ (hist # <<>> /\ Returned(Last)) =>
       CASE Last.op = "create" -> v.capacity = 1
         [] Last.op \in {"insert", "push"} ->
              /\ v.capacity >= Last.pre.capacity
              /\ v.capacity = IF Last.pre.size = Last.pre.capacity
                              THEN 2 * Last.pre.capacity
                              ELSE Last.pre.capacity
         [] Last.op \in {"set", "get", "size", "in_bounds", "remove", "pop"} ->
              v.capacity = Last.pre.capacity
         [] OTHER -> TRUE

CapacityDoublesWhenFullWitness ==
  /\ hist # <<>> /\ Returned(Last) /\ Last.op \in {"insert", "push"}
  /\ Last.pre.size = 2 /\ Last.pre.capacity = 2
  /\ v.capacity = 4 /\ v.size = 3

\* C15: a vector_set that returns changes slot i to the value and nothing
\* else: size, capacity and every other slot are as before the call; after
\* vector_get, vector_size and vector_in_bounds the container is as before.
SetChangesOneSlot ==
  (hist # <<>> /\ Returned(Last)) =>
    /\ Last.op = "set" =>
         /\ v.size = Last.pre.size
         /\ v.capacity = Last.pre.capacity
         /\ v.record = Last.pre.record
         /\ DOMAIN v.elems = DOMAIN Last.pre.elems
         /\ v.elems[Last.i] = Last.value
         /\ \A k \in DOMAIN v.elems \ {Last.i} : v.elems[k] = Last.pre.elems[k]
    /\ Last.op \in {"get", "size", "in_bounds"} => v = Last.pre

SetChangesOneSlotWitness ==
  /\ hist # <<>> /\ Returned(Last) /\ Last.op = "set"
  /\ Last.i = 0 /\ v.size = 2
  /\ Last.pre.elems[0] # Last.value
  /\ v.elems[1] # Last.value

\* The lines of s that a terminator ends, in order, and what the shell is to do
\* with each: prompt, then run it if it has at most MAX_LINE characters and
\* report it otherwise.
RECURSIVE Expected(_)
Expected(s) ==
  IF s = <<>> THEN <<>>
  ELSE IF \A k \in 1..Len(s) : ~EndsLine(s[k]) THEN <<[ev |-> "part", line |-> s]>>
  ELSE <<Prompted,
         IF First(s, 1, EndsLine) - 1 <= MAX_LINE
         THEN Ran(SubSeq(s, 1, First(s, 1, EndsLine) - 1))
         ELSE TooLong>>
       \o Expected(SubSeq(s, First(s, 1, EndsLine) + 1, Len(s)))

\* C12: between lines the shell has consumed whole lines only, has given
\* run_cmd exactly the lines of at most MAX_LINE characters, each whole, and has
\* answered every longer line with the error alone; the next prompt follows;
\* the vector changes only in run_cmd.
LongLinesRejected ==
  /\ pc = "top" =>
       /\ pos = 0 \/ EndsLine(input[pos])
       /\ trace = Expected(SubSeq(input, 1, pos))
  /\ (pc = "fill" /\ idx = 0) => trace = Expected(SubSeq(input, 1, pos)) \o <<Prompted>>
  /\ pc = "run" => Len(cstring(dest)) <= MAX_LINE

LongLinesRejectedWitness ==
  /\ pc = "top" /\ Len(trace) = 4
  /\ Len(input) > Len(Line84)
  /\ SubSeq(input, 1, Len(Line84)) = Line84
  /\ trace[2] = TooLong
  /\ trace[4] = Ran(Line80)
  /\ line = <<W_push, <<"a">>>>
  /\ calls = <<>>

\* C14: once getchar has met the end of input, the shell stops: read_cmd
\* returns false and main returns, or a command has ended the process.
ShellStopsAtEndOfInput == eof ~> (pc = "done" \/ status # "running")

====
